---- MODULE Spec2Model ----
(***************************************************************************)
(* Model of the historical backfill orchestrator of the Toast ETL          *)
(* pipeline (src/src/backfill/backfill_manager.py) with the closure        *)
(* classifier of src/src/validators/business_calendar.py.                  *)
(*                                                                         *)
(* Calendar days are ordinals: day d stands for the d-th YYYYMMDD string   *)
(* of the server's available range (20240404 is day 1).  The extractor,    *)
(* transformer, loader and validator are collaborators: every call to one  *)
(* of them answers or raises, chosen by the environment.                   *)
(***************************************************************************)
EXTENDS Integers, Sequences, FiniteSets, TLC

\* ---------------------------------------------------------------- bounds
MaxDay == 2
MaxReq == 2
MaxWorkers == 2
MaxBatch == 2
MaxRecorded == 3
MaxList == 7
MaxSlice == 4
MaxCand == 3
MaxAttempts == 3
MaxFail == 3

\* ------------------------------------------------------ program constants
min_records_threshold == 10
min_files_threshold == 4
min_sales_threshold == 50
BytesPerRecord == 100
MeaningfulRecords == 10
MeaningfulFiles == 4

Days == 1..MaxDay
\* A date string that strptime rejects ('2024-04-04', '20241301', 'today').
BadDay == 0
\* generate_closure_records, line 173: strptime(date, '%Y%m%d') accepts it.
WellFormed(date) == date \in Days
None == "None"

Tables == {"all_items_report", "check_details", "cash_entries",
           "item_selection_details", "kitchen_timings", "order_details",
           "payment_details"}

\* --------------------------------------------------------------- helpers
Max(a, b) == IF a >= b THEN a ELSE b
Min(a, b) == IF a <= b THEN a ELSE b

\* Mutant: the list comprehension keeps every date.
FilterSeqKeepingAll(s, keep) == s

RECURSIVE FilterSeq(_, _)
FilterSeq(s, keep) ==
    IF s = <<>> THEN <<>>
    ELSE IF Head(s) \in keep THEN <<Head(s)>> \o FilterSeq(Tail(s), keep)
         ELSE FilterSeq(Tail(s), keep)

RECURSIVE Insert(_, _)
Insert(x, s) ==
    IF s = <<>> THEN <<x>>
    ELSE IF x <= Head(s) THEN <<x>> \o s
         ELSE <<Head(s)>> \o Insert(x, Tail(s))

RECURSIVE Sorted(_)
Sorted(s) == IF s = <<>> THEN <<>> ELSE Insert(Head(s), Sorted(Tail(s)))

Range(s) == {s[k] : k \in 1..Len(s)}
Count(s, x) == Cardinality({k \in 1..Len(s) : s[k] = x})

\* ------------------------------------------------- BusinessCalendar (pure)
\* Mutant: the record count is looked at before the file count.
is_likely_closure_date_records_first(fa) ==
    IF fa.total_records < min_records_threshold THEN <<TRUE, "low_activity">>
    ELSE IF fa.files_found = 0 THEN <<TRUE, "no_files">>
    ELSE IF fa.files_found < min_files_threshold THEN <<TRUE, "low_activity">>
    ELSE IF fa.total_sales > 0 /\ fa.total_sales < min_sales_threshold
         THEN <<TRUE, "no_sales">>
    ELSE IF ~fa.has_meaningful_data THEN <<TRUE, "low_activity">>
    ELSE <<FALSE, "">>

\* is_likely_closure_date: first matching rule decides.
is_likely_closure_date(fa) ==
    IF fa.files_found = 0 THEN <<TRUE, "no_files">>
    ELSE IF fa.total_records < min_records_threshold THEN <<TRUE, "low_activity">>
    ELSE IF fa.files_found < min_files_threshold THEN <<TRUE, "low_activity">>
    ELSE IF fa.total_sales > 0 /\ fa.total_sales < min_sales_threshold
         THEN <<TRUE, "no_sales">>
    ELSE IF ~fa.has_meaningful_data THEN <<TRUE, "low_activity">>
    ELSE <<FALSE, "">>

\* ------------------------------------------------ _analyze_sftp_files
\* probe.raises: listing the files of the date raised; probe.files: the file
\* infos, each with its size in bytes, or raises when get_file_info raised.
EstimatedRecords(info) ==
    IF info.raises THEN 0 ELSE Max(0, (info.size \div BytesPerRecord) - 1)

RECURSIVE TotalEstimated(_)
TotalEstimated(files) ==
    IF files = <<>> THEN 0
    ELSE EstimatedRecords(Head(files)) + TotalEstimated(Tail(files))

\* Mutant: a probing error is answered like a day full of files.
analyze_sftp_files_error_as_open(probe) ==
    IF probe.raises
    THEN [total_records |-> MeaningfulRecords, files_found |-> MeaningfulFiles,
          total_sales |-> 0, has_meaningful_data |-> TRUE, error |-> TRUE]
    ELSE [total_records |-> TotalEstimated(probe.files),
          files_found |-> Len(probe.files),
          total_sales |-> 0,
          has_meaningful_data |->
              (TotalEstimated(probe.files) >= MeaningfulRecords
               /\ Len(probe.files) >= MeaningfulFiles),
          error |-> FALSE]

analyze_sftp_files(probe) ==
    IF probe.raises
    THEN [total_records |-> 0, files_found |-> 0, total_sales |-> 0,
          has_meaningful_data |-> FALSE, error |-> TRUE]
    ELSE [total_records |-> TotalEstimated(probe.files),
          files_found |-> Len(probe.files),
          total_sales |-> 0,
          has_meaningful_data |->
              (TotalEstimated(probe.files) >= MeaningfulRecords
               /\ Len(probe.files) >= MeaningfulFiles),
          error |-> FALSE]

\* ------------------------------------------------ _get_table_name_from_file
get_table_name_from_file(file) ==
    CASE file = "OrderDetails.csv" -> "order_details"
      [] file = "CheckDetails.csv" -> "check_details"
      [] OTHER -> None

\* Mutant: a table whose load raised is counted like the others.
load_closure_records_counting_all(load_raises) ==
    [status |-> "success",
     total_records |-> Cardinality(Tables),
     load_errors |-> Tables \cap load_raises]

\* ------------------------------------------------ _load_closure_records
\* One placeholder row per table; a table whose load raises is logged and
\* skipped, the others are counted.
load_closure_records(load_raises) ==
    [status |-> "success",
     total_records |-> Cardinality(Tables \ load_raises),
     load_errors |-> Tables \cap load_raises]

\* ------------------------------------------------ process_single_date
Result(date, status, reason, records, probe_error, load_errors) ==
    [date |-> date, status |-> status, closure_reason |-> reason,
     records_loaded |-> records, probe_error |-> probe_error,
     load_errors |-> load_errors]

\* An invocation returns a result or raises; loaded names the tables of real
\* (non-placeholder) rows it wrote to the warehouse before it ended.
Returned(value, loaded) == [raised |-> FALSE, value |-> value, loaded |-> loaded]
Raised(date, loaded) ==
    [raised |-> TRUE, value |-> Result(date, "raised", "", 0, FALSE, {}),
     loaded |-> loaded]

\* Tables with a non-empty frame after the transform loop, and their rows.
TransformedTables(e) ==
    {t \in Tables : \E k \in 1..Len(e.download.files) :
        /\ get_table_name_from_file(e.download.files[k]) = t
        /\ e.transform[e.download.files[k]].rows > 0}

RowsOf(e, t) ==
    LET ks == {k \in 1..Len(e.download.files) :
                 /\ get_table_name_from_file(e.download.files[k]) = t
                 /\ e.transform[e.download.files[k]].rows > 0}
        last == CHOOSE k \in ks : \A j \in ks : j <= k
    IN e.transform[e.download.files[last]].rows

RECURSIVE SumRows(_, _)
SumRows(e, ts) ==
    IF ts = {} THEN 0
    ELSE LET t == CHOOSE x \in ts : TRUE
         IN RowsOf(e, t) + SumRows(e, ts \ {t})

TransformRaises(e) ==
    \E k \in 1..Len(e.download.files) :
        /\ get_table_name_from_file(e.download.files[k]) # None
        /\ e.transform[e.download.files[k]].raises

\* The statements inside the try block (lines 212-324).
process_single_date_try(date, e, validate_data) ==
    LET fa == analyze_sftp_files(e.probe)
        decision == is_likely_closure_date(fa)
    IN IF decision[1]
       THEN IF e.synth_raises \/ ~WellFormed(date)
            THEN Raised(date, {})
            ELSE LET cr == load_closure_records(e.load_raises)
                 IN Returned(Result(date, "closure_processed", decision[2],
                                    cr.total_records, fa.error, cr.load_errors), {})
       ELSE IF e.download.raises THEN Raised(date, {})
       ELSE IF e.download.files = <<>>
            THEN Returned(Result(date, "no_files", "", 0, fa.error, {}), {})
       ELSE IF TransformRaises(e) THEN Raised(date, {})
       ELSE IF TransformedTables(e) = {}
            THEN Returned(Result(date, "no_data", "", 0, fa.error, {}), {})
       ELSE LET ok == TransformedTables(e) \ e.load_raises
            IN IF validate_data /\ e.validate_raises
               THEN Raised(date, ok)
               ELSE Returned(Result(date, "success", "", SumRows(e, ok), fa.error,
                                    TransformedTables(e) \cap e.load_raises), ok)

\* The except clause of the body (lines 326-337).
process_single_date_except(date, attempt) ==
    IF attempt.raised
    THEN Returned(Result(date, "error", "", 0, FALSE, {}), attempt.loaded)
    ELSE attempt

process_single_date(date, e, validate_data) ==
    process_single_date_except(date, process_single_date_try(date, e, validate_data))

\* ------------------------------------------------ retry_with_backoff
\* The decorator on process_single_date: max_attempts=3, every Exception is
\* retryable.  outcomes is the set of outcomes one invocation of the body can
\* have; the result is the set of outcomes of the decorated call, with the
\* number of invocations of the body and of backoff sleeps.  first is the
\* set of outcomes of the first invocation.
max_attempts == 3

\* Mutant: an outcome with a status other than success or closure_processed
\* is retried like a raise.
RECURSIVE retry_with_backoff_on_status(_, _, _)
retry_with_backoff_on_status(first, outcomes, attempt) ==
    UNION { IF ~o.raised /\ o.value.status \in {"success", "closure_processed"}
            THEN {[raised |-> FALSE, value |-> o.value, loaded |-> o.loaded,
                   calls |-> attempt + 1, sleeps |-> attempt]}
            ELSE IF attempt = max_attempts - 1
            THEN {[raised |-> o.raised, value |-> o.value, loaded |-> o.loaded,
                   calls |-> attempt + 1, sleeps |-> attempt]}
            ELSE retry_with_backoff_on_status(first, outcomes, attempt + 1)
          : o \in (IF attempt = 0 THEN first ELSE outcomes) }

RECURSIVE retry_with_backoff(_, _, _)
retry_with_backoff(first, outcomes, attempt) ==
    UNION { IF ~o.raised
            THEN {[raised |-> FALSE, value |-> o.value, loaded |-> o.loaded,
                   calls |-> attempt + 1, sleeps |-> attempt]}
            ELSE IF attempt = max_attempts - 1
            THEN {[raised |-> TRUE, value |-> o.value, loaded |-> o.loaded,
                   calls |-> attempt + 1, sleeps |-> attempt]}
            ELSE retry_with_backoff(first, outcomes, attempt + 1)
          : o \in (IF attempt = 0 THEN first ELSE outcomes) }

\* ------------------------------------------------ environment answers
File(size) == [raises |-> FALSE, size |-> size]
FileInfoFails == [raises |-> TRUE, size |-> 0]
Listing(files) == [raises |-> FALSE, files |-> files]
CallFails == [raises |-> TRUE, files |-> <<>>]

FileNames == {"OrderDetails.csv", "CheckDetails.csv", "README.txt"}
Frame(rows) == [raises |-> FALSE, rows |-> rows]
TransformFails == [raises |-> TRUE, rows |-> 0]

ClosedProbes == {CallFails, Listing(<<>>), Listing(<<File(150)>>),
                 Listing(<<FileInfoFails, File(400), File(400), File(400)>>)}
OpenProbe == Listing(<<File(400), File(400), File(400), File(400)>>)
\* BigQueryLoader.load_dataframe(df, table_name, source_file, ...) requires
\* source_file; the manager calls load_dataframe(df, table_name).  A call
\* that lacks a required argument raises TypeError, for every table.
load_dataframe_required == {"df", "table_name", "source_file"}
load_dataframe_passed == {"df", "table_name"}
BigQueryLoaderRaises ==
    IF load_dataframe_required \subseteq load_dataframe_passed THEN {} ELSE Tables

\* The tables whose load raises: none (a loader that accepts the call), one,
\* or what the repository's BigQueryLoader does.
LoadRaises == {{}, {"order_details"}, BigQueryLoaderRaises}
Downloads == {CallFails, Listing(<<>>),
              Listing(<<"OrderDetails.csv", "CheckDetails.csv", "README.txt">>)}
Transforms == {[f \in FileNames |-> Frame(2)],
               [f \in FileNames |-> Frame(0)],
               [f \in FileNames |-> IF f = "OrderDetails.csv" THEN Frame(2) ELSE Frame(0)],
               [f \in FileNames |-> IF f = "CheckDetails.csv" THEN TransformFails ELSE Frame(2)]}

Env(probe, synth, loads, download, transform, validate) ==
    [probe |-> probe, synth_raises |-> synth, load_raises |-> loads,
     download |-> download, transform |-> transform, validate_raises |-> validate]

\* What the collaborators answer for one date.  On a closure day only the
\* probe, the synthesis and the loads are consulted; on an open day the
\* synthesis is not.
Envs ==
    {Env(p, s, l, CallFails, [f \in FileNames |-> Frame(0)], FALSE) :
        p \in ClosedProbes, s \in BOOLEAN, l \in LoadRaises}
    \cup
    {Env(OpenProbe, FALSE, l, d, t, v) :
        l \in LoadRaises, d \in Downloads, t \in Transforms, v \in BOOLEAN}

BodyOutcomes(date, validate_data) ==
    {process_single_date(date, e, validate_data) : e \in Envs}

\* Answers the scheduler can tell apart: a closure fully loaded, a closure
\* with one table refused, an open day loaded, nothing downloaded, nothing
\* transformed, a failed download.
SchedEnvs ==
    {Env(Listing(<<>>), FALSE, l, CallFails, [f \in FileNames |-> Frame(0)], FALSE) :
        l \in {{}, {"order_details"}}}
    \cup
    {Env(OpenProbe, FALSE, {}, d, t, FALSE) :
        d \in Downloads,
        t \in {[f \in FileNames |-> Frame(2)], [f \in FileNames |-> Frame(0)]}}

SchedOutcomes(date, validate_data) ==
    {process_single_date(date, e, validate_data) : e \in SchedEnvs}

\* ================================================================ state
VARIABLES
    max_workers,        \* BackfillManager.max_workers
    batch_size,         \* BackfillManager.batch_size
    skip_existing,      \* BackfillManager.skip_existing
    validate_data,      \* BackfillManager.validate_data
    stats,              \* BackfillManager.stats
    warehouse,          \* days the processed-dates query of the warehouse reports
    pc,                 \* where the thread calling run_backfill is
    request,            \* arguments of the current run_backfill call
    dates_to_process,   \* run_backfill: the resolved work list
    i,                  \* run_backfill: offset of the current batch
    batch,              \* process_date_batch: dates
    fut,                \* process_date_batch: future_to_date, by position
    results,            \* process_date_batch: results
    all_results,        \* run_backfill: all_results
    pd,                 \* last direct call of process_single_date
    call                \* last direct call of a helper function

vars == <<max_workers, batch_size, skip_existing, validate_data, stats,
          warehouse, pc, request, dates_to_process, i, batch, fut, results,
          all_results, pd, call>>

config == <<max_workers, batch_size, skip_existing, validate_data>>

\* __init__ (lines 67-79)
InitStats ==
    [total_dates |-> 0, processed_dates |-> 0, skipped_dates |-> 0,
     failed_dates |-> 0, closure_dates |-> 0, total_records |-> 0,
     failed_date_list |-> <<>>, closure_date_list |-> <<>>]

NoArg == [kind |-> "none", day |-> 0]
BadArg == [kind |-> "bad", day |-> 0]
Arg(d) == [kind |-> "day", day |-> d]
DateArgs == {NoArg, BadArg} \cup {Arg(d) : d \in Days}

NoRequest == [specific_dates |-> <<>>, start_date |-> NoArg, end_date |-> NoArg]
NoCall == [called |-> FALSE]
NoHelperCall == [fn |-> "none"]

Init ==
    /\ max_workers \in 1..MaxWorkers
    /\ batch_size \in 1..MaxBatch
    /\ skip_existing \in BOOLEAN
    /\ validate_data \in BOOLEAN
    /\ stats = InitStats
    /\ warehouse = {}
    /\ pc = "idle"
    /\ request = NoRequest
    /\ dates_to_process = <<>>
    /\ i = 0
    /\ batch = <<>>
    /\ fut = <<>>
    /\ results = <<>>
    /\ all_results = <<>>
    /\ pd = NoCall
    /\ call = NoHelperCall

\* ================================================= date resolution
\* get_date_range: strptime raises ValueError on a malformed string; the
\* loop appends every day from start to end.
RECURSIVE DaysFrom(_, _)
DaysFrom(current, end) ==
    IF current <= end THEN <<current>> \o DaysFrom(current + 1, end) ELSE <<>>

get_date_range(start_date, end_date) ==
    IF start_date.kind # "day" \/ end_date.kind # "day"
    THEN [raised |-> TRUE, dates |-> <<>>]
    ELSE [raised |-> FALSE, dates |-> DaysFrom(start_date.day, end_date.day)]

\* get_available_sftp_dates: the built-in range 20240404..20250609.
get_available_sftp_dates == get_date_range(Arg(1), Arg(MaxDay)).dates

\* Mutant: the answer of the warehouse is used even when the query failed.
get_processed_dates_despite_failure(query_fails) == warehouse

\* get_processed_dates: a failing query is logged and answered with [].
get_processed_dates(query_fails) == IF query_fails THEN {} ELSE warehouse

filter_dates_to_process(available_dates, query_fails) ==
    IF ~skip_existing
    THEN available_dates
    ELSE Sorted(FilterSeq(available_dates, Days \ get_processed_dates(query_fails)))

\* run_backfill, lines 574-586: the work list of a request.
ResolveDates(req, query_fails) ==
    IF req.specific_dates # <<>>
    THEN [raised |-> FALSE, dates |-> req.specific_dates]
    ELSE IF req.start_date.kind # "none" /\ req.end_date.kind # "none"
    THEN LET r == get_date_range(req.start_date, req.end_date)
         IN IF r.raised THEN r
            ELSE [raised |-> FALSE,
                  dates |-> filter_dates_to_process(r.dates, query_fails)]
    ELSE [raised |-> FALSE,
          dates |-> filter_dates_to_process(get_available_sftp_dates, query_fails)]

\* Mutant: the slice stops one date early, dates_to_process[i:i + batch_size - 1].
SliceDroppingLast(dates, offset, size) ==
    SubSeq(dates, offset + 1, Min(offset + size, Len(dates)) - 1)

\* run_backfill, line 605: the slice dates_to_process[i:i + batch_size].
Slice(dates, offset, size) ==
    SubSeq(dates, offset + 1, Min(offset + size, Len(dates)))

\* run_backfill, lines 604-611: the slices the loop hands out, in order.
RECURSIVE Batches(_, _, _)
Batches(dates, offset, size) ==
    IF offset < Len(dates)
    THEN <<Slice(dates, offset, size)>> \o Batches(dates, offset + size, size)
    ELSE <<>>

Recorded(st) == st.processed_dates + st.closure_dates + st.failed_dates

ExplicitLists == UNION {[1..n -> Days] : n \in 0..MaxReq}
\* The callers pass an explicit list, or a start and an end, or nothing.
Requests ==
    [specific_dates : ExplicitLists \ {<<>>}, start_date : {NoArg}, end_date : {NoArg}]
    \cup [specific_dates : {<<>>}, start_date : DateArgs \ {NoArg},
                                   end_date : DateArgs \ {NoArg}]
    \cup {NoRequest}

\* ===================================================== run_backfill
\* Lines 569-588 and 649-652: resolve the work list and set total_dates; a
\* malformed range re-raises to the caller.
RunBackfill(req, query_fails) ==
    /\ pc \in {"idle", "returned", "raised"}
    /\ LET r == ResolveDates(req, query_fails)
       IN /\ Recorded(stats) + Len(r.dates) <= MaxRecorded
          /\ IF r.raised
             THEN /\ pc' = "raised"
                  /\ UNCHANGED <<stats, dates_to_process, request>>
             ELSE /\ stats' = [stats EXCEPT !.total_dates = Len(r.dates)]
                  /\ dates_to_process' = r.dates
                  /\ request' = req
                  /\ pc' = "loop"
    /\ UNCHANGED <<config, warehouse, i, batch, fut, results, all_results, pd, call>>

\* calls and sleeps: how often the body of process_single_date ran for the
\* date and how often its decorator slept.
Queued == [state |-> "queued", raised |-> FALSE, status |-> "", records_loaded |-> 0,
           calls |-> 0, sleeps |-> 0]

\* Lines 604-610 and 489-497: take the next slice and submit every date of it
\* to a fresh pool.
SubmitBatch ==
    /\ pc = "loop"
    /\ i < Len(dates_to_process)
    /\ batch' = Slice(dates_to_process, i, batch_size)
    /\ fut' = [k \in 1..Len(Slice(dates_to_process, i, batch_size)) |-> Queued]
    /\ results' = <<>>
    /\ pc' = "collect"
    /\ UNCHANGED <<config, stats, warehouse, request, dates_to_process, i,
                   all_results, pd, call>>

\* The summary is about to be returned: either the work list is empty (line
\* 590) or the loop over the batches has ended (line 624).
Returning == pc = "loop" /\ i >= Len(dates_to_process)

\* Lines 590-592 and 624-647: get_summary() is returned and the locals of the
\* call go out of scope.
ReturnSummary ==
    /\ Returning
    /\ pc' = "returned"
    /\ request' = NoRequest
    /\ dates_to_process' = <<>>
    /\ i' = 0
    /\ batch' = <<>>
    /\ fut' = <<>>
    /\ results' = <<>>
    /\ all_results' = <<>>
    /\ UNCHANGED <<config, stats, warehouse, pd, call>>

\* ================================================= process_date_batch
Running == Cardinality({k \in DOMAIN fut : fut[k].state = "running"})

\* Mutant: the pool starts every submitted date at once.
CanStartUnbounded(k) ==
    /\ fut[k].state = "queued"
    /\ \A j \in DOMAIN fut : j < k => fut[j].state # "queued"

\* Mutant: the pool keeps one thread fewer than max_workers.
CanStartOneFewer(k) ==
    /\ fut[k].state = "queued"
    /\ \A j \in DOMAIN fut : j < k => fut[j].state # "queued"
    /\ Running < max_workers - 1

\* ThreadPoolExecutor(max_workers): work items leave the queue in submission
\* order, and only while fewer than max_workers threads are busy.
CanStart(k) ==
    /\ fut[k].state = "queued"
    /\ \A j \in DOMAIN fut : j < k => fut[j].state # "queued"
    /\ Running < max_workers

\* A pool thread picks up the date at position k of the batch.
Start(k) ==
    /\ pc = "collect"
    /\ k \in DOMAIN fut
    /\ CanStart(k)
    /\ fut' = [fut EXCEPT ![k].state = "running"]
    /\ UNCHANGED <<config, stats, warehouse, pc, request, dates_to_process, i,
                   batch, results, all_results, pd, call>>

\* Mutant: the pool thread itself counts its date in the shared statistics.
FinishWritingStats(k) ==
    /\ pc = "collect"
    /\ k \in DOMAIN fut
    /\ fut[k].state = "running"
    /\ \E o \in retry_with_backoff(SchedOutcomes(batch[k], validate_data),
                                   SchedOutcomes(batch[k], validate_data), 0) :
          /\ fut' = [fut EXCEPT ![k] =
                        [state |-> "finished", raised |-> o.raised,
                         status |-> o.value.status,
                         records_loaded |-> o.value.records_loaded,
                         calls |-> o.calls, sleeps |-> o.sleeps]]
          /\ stats' = IF o.value.status = "success"
                      THEN [stats EXCEPT !.processed_dates = @ + 1]
                      ELSE [stats EXCEPT !.failed_dates = @ + 1]
          /\ warehouse' = IF "order_details" \in o.loaded
                          THEN warehouse \cup {batch[k]} ELSE warehouse
    /\ UNCHANGED <<config, pc, request, dates_to_process, i, batch,
                   results, all_results, pd, call>>

\* The decorated process_single_date ends on a pool thread: its outcome is
\* stored in the future.  Real order rows it loaded become visible to the
\* processed-dates query.
Finish(k) ==
    /\ pc = "collect"
    /\ k \in DOMAIN fut
    /\ fut[k].state = "running"
    /\ \E o \in retry_with_backoff(SchedOutcomes(batch[k], validate_data),
                                   SchedOutcomes(batch[k], validate_data), 0) :
          /\ fut' = [fut EXCEPT ![k] =
                        [state |-> "finished", raised |-> o.raised,
                         status |-> o.value.status,
                         records_loaded |-> o.value.records_loaded,
                         calls |-> o.calls, sleeps |-> o.sleeps]]
          /\ warehouse' = IF "order_details" \in o.loaded
                          THEN warehouse \cup {batch[k]} ELSE warehouse
    /\ UNCHANGED <<config, stats, pc, request, dates_to_process, i, batch,
                   results, all_results, pd, call>>

\* Lines 507-516: the statistics after a collected result.
RecordResult(st, date, f) ==
    IF f.status = "success"
    THEN [st EXCEPT !.processed_dates = @ + 1,
                    !.total_records = @ + f.records_loaded]
    ELSE IF f.status = "closure_processed"
    THEN [st EXCEPT !.closure_dates = @ + 1,
                    !.closure_date_list = Append(@, date),
                    !.total_records = @ + f.records_loaded]
    ELSE [st EXCEPT !.failed_dates = @ + 1,
                    !.failed_date_list = Append(@, date)]

\* Mutant: the except clause lists the date but forgets the counter.
RecordExceptionUncounted(st, date) ==
    [st EXCEPT !.failed_date_list = Append(@, date)]

\* Lines 534-537: the statistics after future.result() raised.
RecordException(st, date) ==
    [st EXCEPT !.failed_dates = @ + 1,
               !.failed_date_list = Append(@, date)]

\* Lines 500-543: the calling thread takes one completed future.
\* result_raises: future.result() raises although the body returned (the
\* worker died outside the body's try block).
Collect(k, result_raises) ==
    /\ pc = "collect"
    /\ k \in DOMAIN fut
    /\ fut[k].state = "finished"
    /\ IF result_raises \/ fut[k].raised
       THEN /\ stats' = RecordException(stats, batch[k])
            /\ results' = Append(results, [date |-> batch[k], status |-> "error"])
       ELSE /\ stats' = RecordResult(stats, batch[k], fut[k])
            /\ results' = Append(results, [date |-> batch[k], status |-> fut[k].status])
    /\ fut' = [fut EXCEPT ![k].state = "collected"]
    /\ UNCHANGED <<config, warehouse, pc, request, dates_to_process, i, batch,
                   all_results, pd, call>>

\* Mutant: the batch returns once every worker has ended, collected or not.
BatchCompleteUncollected ==
    \A k \in DOMAIN fut : fut[k].state \in {"finished", "collected"}

\* as_completed is exhausted and the pool has shut down.
BatchComplete == \A k \in DOMAIN fut : fut[k].state = "collected"

\* Lines 545 and 611: process_date_batch returns, the loop moves on.
ExitBatch ==
    /\ pc = "collect"
    /\ BatchComplete
    /\ all_results' = all_results \o results
    /\ i' = i + batch_size
    /\ pc' = "loop"
    /\ UNCHANGED <<config, stats, warehouse, request, dates_to_process, batch,
                   fut, results, pd, call>>

Next ==
    \/ \E req \in Requests, query_fails \in BOOLEAN : RunBackfill(req, query_fails)
    \/ SubmitBatch
    \/ \E k \in 1..MaxBatch : Start(k)
    \/ \E k \in 1..MaxBatch : Finish(k)
    \/ \E k \in 1..MaxBatch, result_raises \in BOOLEAN : Collect(k, result_raises)
    \/ ExitBatch
    \/ ReturnSummary

Spec == Init /\ [][Next]_vars

\* One run on a fresh manager, under the scheduling the code relies on: the
\* pool starts queued work, a started process_single_date ends, and the
\* thread that called run_backfill keeps running.
FirstRun(req, query_fails) == pc = "idle" /\ RunBackfill(req, query_fails)

NextFair ==
    \/ \E req \in Requests, query_fails \in BOOLEAN : FirstRun(req, query_fails)
    \/ SubmitBatch
    \/ \E k \in 1..MaxBatch : Start(k)
    \/ \E k \in 1..MaxBatch : Finish(k)
    \/ \E k \in 1..MaxBatch, result_raises \in BOOLEAN : Collect(k, result_raises)
    \/ ExitBatch
    \/ ReturnSummary

FairSpec ==
    /\ Init
    /\ [][NextFair]_vars
    /\ WF_vars(SubmitBatch)
    /\ WF_vars(\E k \in 1..MaxBatch : Start(k))
    /\ WF_vars(\E k \in 1..MaxBatch : Finish(k))
    /\ WF_vars(\E k \in 1..MaxBatch, result_raises \in BOOLEAN : Collect(k, result_raises))
    /\ WF_vars(ExitBatch)
    /\ WF_vars(ReturnSummary)

\* The extractor methods that process_single_date and _analyze_sftp_files
\* call (lines 253, 352 and 362).
extractor_calls == {"download_files_for_date", "list_files_for_date", "get_file_info"}

\* The files in the local staging directory of the date when the call
\* returns: those the download wrote (none on a closure day, which downloads
\* nothing), unless cleanup_date_files has removed them.
staged_files(e) ==
    LET decision == is_likely_closure_date(analyze_sftp_files(e.probe))
        downloaded == IF decision[1] \/ e.download.raises THEN {}
                      ELSE Range(e.download.files)
    IN IF "cleanup_date_files" \in extractor_calls THEN {} ELSE downloaded

\* ================================== process_single_date called on its own
CallProcessSingleDate(date, e) ==
    /\ \E o \in retry_with_backoff({process_single_date(date, e, validate_data)},
                                   BodyOutcomes(date, validate_data), 0) :
          pd' = [called |-> TRUE, date |-> date, env |-> e, out |-> o,
                 staged |-> staged_files(e)]
    /\ UNCHANGED <<config, stats, warehouse, pc, request, dates_to_process, i,
                   batch, fut, results, all_results, call>>

NextDate == \E date \in Days, e \in Envs : CallProcessSingleDate(date, e)

SpecDate == Init /\ [][NextDate]_vars

\* ======================================= the batching loop of run_backfill
\* Lines 600-611 on a work list of any length, with process_date_batch
\* taken as one step that returns one result per date of the slice.
InitBatch ==
    /\ max_workers = 1
    /\ batch_size \in 1..MaxSlice
    /\ skip_existing = FALSE
    /\ validate_data = FALSE
    /\ dates_to_process \in {DaysFrom(1, n) : n \in 0..MaxList}
    /\ stats = [InitStats EXCEPT !.total_dates = Len(dates_to_process)]
    /\ warehouse = {}
    /\ pc = "loop"
    /\ request = NoRequest
    /\ i = 0
    /\ batch = <<>>
    /\ fut = <<>>
    /\ results = <<>>
    /\ all_results = <<>>
    /\ pd = NoCall
    /\ call = NoHelperCall

ProcessBatchAtOnce ==
    /\ pc = "loop"
    /\ i < Len(dates_to_process)
    /\ batch' = Slice(dates_to_process, i, batch_size)
    /\ results' = [k \in 1..Len(batch') |-> [date |-> batch'[k], status |-> "success"]]
    /\ all_results' = all_results \o results'
    /\ i' = i + batch_size
    /\ UNCHANGED <<config, stats, warehouse, pc, request, dates_to_process, fut, pd, call>>

NextBatch == ProcessBatchAtOnce \/ ReturnSummary

SpecBatch == InitBatch /\ [][NextBatch]_vars

\* ===================================== a run on a request with a bad date
\* Explicit lists with a malformed entry, a malformed start or end with the
\* other one given, and a malformed start with no end.
MalformedRequests ==
    [specific_dates : {l \in UNION {[1..n -> Days \cup {BadDay}] : n \in 1..MaxReq} :
                          BadDay \in Range(l)},
     start_date : {NoArg}, end_date : {NoArg}]
    \cup {r \in [specific_dates : {<<>>}, start_date : DateArgs, end_date : DateArgs] :
             r.start_date = BadArg \/ r.end_date = BadArg}

NextMalformed ==
    \/ \E req \in MalformedRequests, query_fails \in BOOLEAN : FirstRun(req, query_fails)
    \/ SubmitBatch
    \/ \E k \in 1..MaxBatch : Start(k)
    \/ \E k \in 1..MaxBatch : Finish(k)
    \/ \E k \in 1..MaxBatch, result_raises \in BOOLEAN : Collect(k, result_raises)
    \/ ExitBatch
    \/ ReturnSummary

SpecMalformed == Init /\ [][NextMalformed]_vars

\* ====================== run_backfill with a start or an end date alone
\* start_date and end_date are optional one by one: a caller may pass one of
\* them and leave the other at None.
OneSidedRequests ==
    {[specific_dates |-> <<>>, start_date |-> Arg(d), end_date |-> NoArg] : d \in Days}
    \cup {[specific_dates |-> <<>>, start_date |-> NoArg, end_date |-> Arg(d)] : d \in Days}

NextOneSided ==
    \/ \E req \in Requests \cup OneSidedRequests, query_fails \in BOOLEAN :
          FirstRun(req, query_fails)
    \/ SubmitBatch
    \/ \E k \in 1..MaxBatch : Start(k)
    \/ \E k \in 1..MaxBatch : Finish(k)
    \/ \E k \in 1..MaxBatch, result_raises \in BOOLEAN : Collect(k, result_raises)
    \/ ExitBatch
    \/ ReturnSummary

SpecOneSided == Init /\ [][NextOneSided]_vars

\* ============================== helper functions called on their own
\* A manager whose warehouse already holds any set of days; the helpers read
\* neither max_workers nor batch_size.
InitHelpers ==
    /\ max_workers = 1
    /\ batch_size = 1
    /\ skip_existing \in BOOLEAN
    /\ validate_data \in BOOLEAN
    /\ stats = InitStats
    /\ warehouse \in SUBSET Days
    /\ pc = "idle"
    /\ request = NoRequest
    /\ dates_to_process = <<>>
    /\ i = 0
    /\ batch = <<>>
    /\ fut = <<>>
    /\ results = <<>>
    /\ all_results = <<>>
    /\ pd = NoCall
    /\ call = NoHelperCall

Program == <<config, stats, warehouse, pc, request, dates_to_process, i, batch,
             fut, results, all_results, pd>>

\* ------------------------------------------------ filter_dates_to_process
Candidates == UNION {[1..n -> Days] : n \in 0..MaxCand}

\* Lines 176-180: the processed-dates query is made only when skip_existing.
filter_queries == IF ~skip_existing THEN 0 ELSE 1

CallFilterDatesToProcess(available_dates, query_fails) ==
    /\ call' = [fn |-> "filter_dates_to_process",
                available_dates |-> available_dates,
                processed |-> get_processed_dates(query_fails),
                queries |-> filter_queries,
                out |-> filter_dates_to_process(available_dates, query_fails)]
    /\ UNCHANGED Program

NextFilter ==
    \E available_dates \in Candidates, query_fails \in BOOLEAN :
        CallFilterDatesToProcess(available_dates, query_fails)

SpecFilter == InitHelpers /\ [][NextFilter]_vars


\* ------------------------------------------------ get_date_range on strings
\* A date string is modelled by the number its digits spell (20240404 for
\* '20240404'); 0 stands for a string that is no number at all.
DateStrings ==
    {0, 20230229, 20231230, 20231231, 20240101, 20240102, 20240227, 20240228,
     20240229, 20240230, 20240301, 20240302, 20240400, 20241301}

IsLeap(y) == (y % 4 = 0 /\ y % 100 # 0) \/ y % 400 = 0

DaysInMonth(y, m) ==
    IF m = 2 THEN (IF IsLeap(y) THEN 29 ELSE 28)
    ELSE IF m \in {4, 6, 9, 11} THEN 30 ELSE 31

\* datetime.strptime(s, '%Y%m%d'): ValueError unless the string spells a day
\* of the calendar.
strptime(str) ==
    LET y == str \div 10000
        m == (str \div 100) % 100
        d == str % 100
    IN IF y >= 1 /\ m \in 1..12 /\ d >= 1 /\ d <= DaysInMonth(y, m)
       THEN [raises |-> FALSE, y |-> y, m |-> m, d |-> d]
       ELSE [raises |-> TRUE, y |-> 0, m |-> 0, d |-> 0]

\* datetime.strftime('%Y%m%d')
strftime(t) == t.y * 10000 + t.m * 100 + t.d

\* current += timedelta(days=1)
NextDay(t) ==
    IF t.d < DaysInMonth(t.y, t.m) THEN [t EXCEPT !.d = @ + 1]
    ELSE IF t.m < 12 THEN [t EXCEPT !.m = @ + 1, !.d = 1]
    ELSE [t EXCEPT !.y = @ + 1, !.m = 1, !.d = 1]

\* Mutant: the loop stops before the end date, while current < end.
DateLt(a, b) == <<a.y, a.m, a.d>> # <<b.y, b.m, b.d>> /\ strftime(a) <= strftime(b)

\* current <= end on datetimes
DateLe(a, b) ==
    \/ a.y < b.y
    \/ a.y = b.y /\ a.m < b.m
    \/ a.y = b.y /\ a.m = b.m /\ a.d <= b.d

\* Lines 102-106: the while loop.
RECURSIVE DateLoop(_, _)
DateLoop(current, end) ==
    IF DateLe(current, end)
    THEN <<strftime(current)>> \o DateLoop(NextDay(current), end)
    ELSE <<>>

\* get_date_range on date strings: a ValueError of strptime is logged and
\* raised again (lines 111-113).
get_date_range_of_strings(start_date, end_date) ==
    IF strptime(start_date).raises \/ strptime(end_date).raises
    THEN [raised |-> TRUE, dates |-> <<>>]
    ELSE [raised |-> FALSE,
          dates |-> DateLoop(strptime(start_date), strptime(end_date))]

CallGetDateRange(start_date, end_date) ==
    /\ call' = [fn |-> "get_date_range", start_date |-> start_date,
                end_date |-> end_date,
                out |-> get_date_range_of_strings(start_date, end_date)]
    /\ UNCHANGED Program

NextRange ==
    \E start_date \in DateStrings, end_date \in DateStrings :
        CallGetDateRange(start_date, end_date)

SpecRange == InitHelpers /\ [][NextRange]_vars


\* ------------------------------------------------ is_likely_closure_date
\* File analyses around the thresholds, in every combination.
FileAnalyses ==
    [total_records : {0, min_records_threshold - 1, min_records_threshold},
     files_found : {0, min_files_threshold - 1, min_files_threshold},
     total_sales : {0, 1, min_sales_threshold - 1, min_sales_threshold},
     has_meaningful_data : BOOLEAN]

CallIsLikelyClosureDate(date, fa) ==
    /\ call' = [fn |-> "is_likely_closure_date", date |-> date,
                file_analysis |-> fa, out |-> is_likely_closure_date(fa)]
    /\ UNCHANGED Program

NextClassify ==
    \E date \in Days, fa \in FileAnalyses : CallIsLikelyClosureDate(date, fa)

SpecClassify == InitHelpers /\ [][NextClassify]_vars


\* ------------------------------------------------ generate_closure_records
\* __init__, lines 42-48: the notes of the known reasons.
closure_reasons ==
    [low_activity |-> "Business closed - minimal activity detected",
     no_files |-> "Business closed - no data files found",
     no_sales |-> "Business closed - no sales activity",
     maintenance |-> "Business closed for maintenance",
     emergency |-> "Business closed due to emergency"]

\* closure_reasons.get(closure_reason, 'Business closed')
closure_note(closure_reason) ==
    IF closure_reason \in DOMAIN closure_reasons
    THEN closure_reasons[closure_reason] ELSE "Business closed"

\* strftime('%Y-%m-%d'): the three numbers between the dashes.
strftime_dashed(t) == <<t.y, t.m, t.d>>

\* Lines 177-255: one data frame of one row per table.
zero_records(processing_date, closure_reason, note) ==
    ("all_items_report" :> <<[master_id |-> "CLOSURE_RECORD", item_id |-> "CLOSURE",
                              menu_item |-> <<"Business Closed - ", note>>,
                              item_qty |-> 0, net_amount |-> 0,
                              processing_date |-> processing_date,
                              closure_indicator |-> TRUE,
                              closure_reason |-> closure_reason]>>)
    @@ ("check_details" :> <<[check_id |-> "CLOSURE_RECORD",
                              customer |-> "Business Closed", total |-> 0,
                              opened_date |-> processing_date,
                              processing_date |-> processing_date,
                              closure_indicator |-> TRUE,
                              closure_reason |-> closure_reason]>>)
    @@ ("cash_entries" :> <<[entry_id |-> "CLOSURE_RECORD",
                             action |-> "Business Closed", amount |-> 0,
                             created_date |-> processing_date,
                             processing_date |-> processing_date,
                             closure_indicator |-> TRUE,
                             closure_reason |-> closure_reason]>>)
    @@ ("item_selection_details" :> <<[order_id |-> "CLOSURE_RECORD",
                                       item_selection_id |-> "CLOSURE",
                                       menu_item |-> <<"Business Closed - ", note>>,
                                       quantity |-> 0, net_price |-> 0,
                                       processing_date |-> processing_date,
                                       closure_indicator |-> TRUE,
                                       closure_reason |-> closure_reason]>>)
    @@ ("kitchen_timings" :> <<[id |-> "CLOSURE_RECORD", check_number |-> "CLOSURE",
                                station |-> "Business Closed", fulfillment_time |-> 0,
                                processing_date |-> processing_date,
                                closure_indicator |-> TRUE,
                                closure_reason |-> closure_reason]>>)
    @@ ("order_details" :> <<[order_id |-> "CLOSURE_RECORD",
                              location |-> "Business Closed", total |-> 0,
                              opened |-> processing_date,
                              processing_date |-> processing_date,
                              closure_indicator |-> TRUE,
                              closure_reason |-> closure_reason]>>)
    @@ ("payment_details" :> <<[payment_id |-> "CLOSURE_RECORD",
                                order_id |-> "CLOSURE_RECORD", amount |-> 0,
                                processing_date |-> processing_date,
                                closure_indicator |-> TRUE,
                                closure_reason |-> closure_reason]>>)

\* Mutant: the payment row is not flagged as a closure row.
generate_closure_records_unflagged(date, closure_reason) ==
    IF strptime(date).raises
    THEN [raised |-> TRUE, records |-> <<>>]
    ELSE LET zr == zero_records(strftime_dashed(strptime(date)), closure_reason,
                                closure_note(closure_reason))
         IN [raised |-> FALSE,
             records |-> [t \in DOMAIN zr |->
                            IF t = "payment_details"
                            THEN <<[zr[t][1] EXCEPT !.closure_indicator = FALSE]>>
                            ELSE zr[t]]]

\* generate_closure_records: strptime raises ValueError on a malformed date
\* (line 173).
generate_closure_records(date, closure_reason) ==
    IF strptime(date).raises
    THEN [raised |-> TRUE, records |-> <<>>]
    ELSE [raised |-> FALSE,
          records |-> zero_records(strftime_dashed(strptime(date)), closure_reason,
                                   closure_note(closure_reason))]

ClosureReasons == {"no_files", "low_activity", "no_sales", "holiday"}

CallGenerateClosureRecords(date, closure_reason) ==
    /\ call' = [fn |-> "generate_closure_records", date |-> date,
                closure_reason |-> closure_reason,
                out |-> generate_closure_records(date, closure_reason)]
    /\ UNCHANGED Program

NextClosure ==
    \E date \in DateStrings, closure_reason \in ClosureReasons :
        CallGenerateClosureRecords(date, closure_reason)

SpecClosure == InitHelpers /\ [][NextClosure]_vars


\* ------------------------------------------- retry_with_backoff in general
\* An exception object: its type and which invocation raised it.
NoError == [type |-> "none", id |-> 0]
ErrorTypes == {"IOError", "ValueError"}

\* isinstance(e, exceptions): IOError and ValueError are subclasses of
\* Exception.
Catches(exceptions, type) == type \in exceptions \/ "Exception" \in exceptions

\* The wrapped function: invocation n raises op[n]; after Len(op) failures it
\* returns "ok".
Operations ==
    UNION {[1..k -> ErrorTypes] : k \in 0..MaxFail}

Invoke(op, n) ==
    IF n <= Len(op) THEN [type |-> op[n], id |-> n] ELSE NoError

\* Delays are exact fractions n / d of a second.
Policies ==
    [max_attempts : 0..MaxAttempts,
     base_delay : {0, 1, 30},
     max_delay : {2, 300},
     exponential_base : {[n |-> 1, d |-> 2], [n |-> 1, d |-> 1], [n |-> 2, d |-> 1]},
     jitter : BOOLEAN,
     exceptions : {{"Exception"}, {"IOError"}}]

\* 0.5 + random.random() * 0.5, in hundredths: a draw in [0.5, 1.0).
JitterDraws == [0..MaxAttempts - 1 -> {50, 99}]

RECURSIVE Pow(_, _)
Pow(b, a) == IF a = 0 THEN 1 ELSE b * Pow(b, a - 1)

\* Lines 58-62: the delay before the next attempt.
Delay(p, draws, attempt) ==
    LET raw == [n |-> p.base_delay * Pow(p.exponential_base.n, attempt),
                d |-> Pow(p.exponential_base.d, attempt)]
        capped == IF raw.n <= p.max_delay * raw.d THEN raw
                  ELSE [n |-> p.max_delay, d |-> 1]
    IN IF p.jitter
       THEN [n |-> capped.n * draws[attempt], d |-> capped.d * 100]
       ELSE capped

CallEvent == [ev |-> "call", n |-> 0, d |-> 1]
SleepEvent(delay) == [ev |-> "sleep", n |-> delay.n, d |-> delay.d]
\* Invocations and backoff sleeps of a log.
Calls(log) == Cardinality({k \in 1..Len(log) : log[k].ev = "call"})
Sleeps(log) == Cardinality({k \in 1..Len(log) : log[k].ev = "sleep"})

\* Mutant: the error of the last attempt is swallowed and None is returned.
RaiseLast(e) == [raised |-> FALSE, value |-> "None", error |-> NoError, log |-> <<CallEvent>>]

\* Lines 50-55: raise e on the last attempt.
RaiseSame(e) == [raised |-> TRUE, value |-> "None", error |-> e, log |-> <<CallEvent>>]

\* Mutant: an exception outside the retryable types is treated like a
\* retryable one.
CatchesAnything(exceptions, type) == TRUE

\* except exceptions as e (line 47)
ExceptClause(exceptions, type) == Catches(exceptions, type)

\* Mutant: the delay is not capped by max_delay.
DelayUncapped(p, draws, attempt) ==
    [n |-> p.base_delay * Pow(p.exponential_base.n, attempt),
     d |-> Pow(p.exponential_base.d, attempt)]

\* The delay slept after a failed attempt (line 69).
SleepDelay(p, draws, attempt) == Delay(p, draws, attempt)

\* wrapper, lines 41-73: what the decorated call does from attempt on.
RECURSIVE wrapper(_, _, _, _)
wrapper(op, p, draws, attempt) ==
    IF attempt >= p.max_attempts
    THEN [raised |-> FALSE, value |-> "None", error |-> NoError, log |-> <<>>]
    ELSE LET e == Invoke(op, attempt + 1)
         IN IF e = NoError
            THEN [raised |-> FALSE, value |-> "ok", error |-> NoError,
                  log |-> <<CallEvent>>]
            ELSE IF ~ExceptClause(p.exceptions, e.type)
            THEN [raised |-> TRUE, value |-> "None", error |-> e,
                  log |-> <<CallEvent>>]
            ELSE IF attempt = p.max_attempts - 1
            THEN RaiseSame(e)
            ELSE LET rest == wrapper(op, p, draws, attempt + 1)
                 IN [rest EXCEPT !.log =
                        <<CallEvent, SleepEvent(SleepDelay(p, draws, attempt))>> \o @]

\* A manager with the constructor's defaults for the flags; the decorator
\* reads nothing of it.
InitRetry ==
    /\ max_workers = 1
    /\ batch_size = 1
    /\ skip_existing = TRUE
    /\ validate_data = TRUE
    /\ stats = InitStats
    /\ warehouse = {}
    /\ pc = "idle"
    /\ request = NoRequest
    /\ dates_to_process = <<>>
    /\ i = 0
    /\ batch = <<>>
    /\ fut = <<>>
    /\ results = <<>>
    /\ all_results = <<>>
    /\ pd = NoCall
    /\ call = NoHelperCall

\* One decorated call, on a manager that has made none yet.
CallWrapper(op, p, draws) ==
    /\ call = NoHelperCall
    /\ call' = [fn |-> "wrapper", op |-> op, policy |-> p,
                out |-> wrapper(op, p, draws, 0)]
    /\ UNCHANGED Program

NextRetry ==
    \E op \in Operations, p \in Policies, draws \in JitterDraws :
        CallWrapper(op, p, draws)

SpecRetry == InitRetry /\ [][NextRetry]_vars

\* ===================== the load loop of a normal day (lines 287-300)
\* @retry_with_backoff(max_attempts=3) on BigQueryLoader.load_dataframe, the
\* other parameters at their defaults.
LoadPolicy ==
    [max_attempts |-> 3, base_delay |-> 1, max_delay |-> 300,
     exponential_base |-> [n |-> 2, d |-> 1], jitter |-> TRUE,
     exceptions |-> {"Exception"}]

\* func(*args, **kwargs) with a required argument missing raises TypeError
\* before the body runs, at every attempt.
MissingArgument == [k \in 1..LoadPolicy.max_attempts |-> "TypeError"]

\* The loader of the manager: the BigQueryLoader its constructor builds, or
\* a stand-in put in its place whose load_dataframe(df, table_name) is the
\* load operation itself.
Loaders == {"BigQueryLoader", "double"}

\* self.loader.load_dataframe(df, table_name), line 294: whether it raised,
\* how often the body of the load ran, how often the call slept.
load_dataframe(loader, op, draws) ==
    IF loader = "double"
    THEN [raised |-> Invoke(op, 1) # NoError, body_calls |-> 1, sleeps |-> 0]
    ELSE IF load_dataframe_required \subseteq load_dataframe_passed
    THEN LET w == wrapper(op, LoadPolicy, draws, 0)
         IN [raised |-> w.raised, body_calls |-> Calls(w.log),
             sleeps |-> Sleeps(w.log)]
    ELSE LET w == wrapper(MissingArgument, LoadPolicy, draws, 0)
         IN [raised |-> w.raised, body_calls |-> 0, sleeps |-> Sleeps(w.log)]

\* A normal day: four sizeable files on the server, three downloaded, two
\* of them tables with two rows each.
LoadTables == {"order_details", "check_details"}
LoadDayFiles == Listing(<<"OrderDetails.csv", "CheckDetails.csv", "README.txt">>)
LoadDayFrames == [f \in FileNames |-> Frame(2)]

\* process_single_date on such a day, the load of table t failing as
\* ops[t] says.
CallLoadStep(date, loader, ops, draws) ==
    /\ call = NoHelperCall
    /\ LET loads == [t \in LoadTables |-> load_dataframe(loader, ops[t], draws)]
           e == Env(OpenProbe, FALSE, {t \in LoadTables : loads[t].raised},
                    LoadDayFiles, LoadDayFrames, FALSE)
       IN call' = [fn |-> "load_step", date |-> date, loader |-> loader,
                   ops |-> ops, loads |-> loads,
                   out |-> process_single_date(date, e, validate_data).value]
    /\ UNCHANGED Program

NextLoad ==
    \E date \in Days, loader \in Loaders, ops \in [LoadTables -> Operations],
       draws \in JitterDraws :
        CallLoadStep(date, loader, ops, draws)

SpecLoad == InitRetry /\ [][NextLoad]_vars

\* ============================== get_current_stats on a monitoring thread
\* Lines 715-724: the dictionary is built by nine reads of self.stats, in
\* this order: total_dates, processed_dates, closure_dates, failed_dates,
\* total_records, then for progress_percentage processed_dates,
\* closure_dates, failed_dates and total_dates.  No lock is held: the thread
\* that runs run_backfill may take steps between any two reads.
SnapshotReads == 9

\* A manager with one worker and batches of one date.
InitMonitor ==
    /\ max_workers = 1
    /\ batch_size = 1
    /\ skip_existing = FALSE
    /\ validate_data = FALSE
    /\ stats = InitStats
    /\ warehouse = {}
    /\ pc = "idle"
    /\ request = NoRequest
    /\ dates_to_process = <<>>
    /\ i = 0
    /\ batch = <<>>
    /\ fut = <<>>
    /\ results = <<>>
    /\ all_results = <<>>
    /\ pd = NoCall
    /\ call = NoHelperCall

\* The call begins with the read of total_dates.
GetCurrentStatsBegin ==
    /\ call.fn = "get_current_stats" => call.reads = SnapshotReads
    /\ call' = [fn |-> "get_current_stats", reads |-> 1,
                total_dates |-> stats.total_dates,
                processed_dates |-> 0, closure_dates |-> 0, failed_dates |-> 0,
                total_records |-> 0, num |-> 0, den |-> 1, in_run |-> FALSE]
    /\ UNCHANGED Program

\* The next read.  num / den * 100 is progress_percentage; in_run tells
\* whether a run was in progress when the dictionary was returned.
GetCurrentStatsRead ==
    /\ call.fn = "get_current_stats"
    /\ call.reads < SnapshotReads
    /\ LET r == call.reads + 1
           c == [call EXCEPT !.reads = r]
       IN call' =
            CASE r = 2 -> [c EXCEPT !.processed_dates = stats.processed_dates]
              [] r = 3 -> [c EXCEPT !.closure_dates = stats.closure_dates]
              [] r = 4 -> [c EXCEPT !.failed_dates = stats.failed_dates]
              [] r = 5 -> [c EXCEPT !.total_records = stats.total_records]
              [] r = 6 -> [c EXCEPT !.num = stats.processed_dates]
              [] r = 7 -> [c EXCEPT !.num = @ + stats.closure_dates]
              [] r = 8 -> [c EXCEPT !.num = @ + stats.failed_dates]
              [] OTHER -> [c EXCEPT !.den = Max(stats.total_dates, 1),
                                    !.in_run = (pc \in {"loop", "collect"})]
    /\ UNCHANGED Program

\* A call of run_backfill made while no call of get_current_stats is under
\* way, so that every snapshot is taken within one call of run_backfill or
\* between two.
RunWhileNoSnapshot(req, query_fails) ==
    /\ call.fn = "get_current_stats" => call.reads = SnapshotReads
    /\ RunBackfill(req, query_fails)

NextMonitor ==
    \/ \E req \in Requests, query_fails \in BOOLEAN : RunWhileNoSnapshot(req, query_fails)
    \/ SubmitBatch
    \/ \E k \in 1..MaxBatch : Start(k)
    \/ \E k \in 1..MaxBatch : Finish(k)
    \/ \E k \in 1..MaxBatch, result_raises \in BOOLEAN : Collect(k, result_raises)
    \/ ExitBatch
    \/ ReturnSummary
    \/ GetCurrentStatsBegin
    \/ GetCurrentStatsRead

SpecMonitor == InitMonitor /\ [][NextMonitor]_vars


\* ================================================================ claims
InRun == pc \in {"loop", "collect"}
Started(k) == fut[k].state \in {"running", "finished", "collected"}
DatesOf(rs) == [k \in 1..Len(rs) |-> rs[k].date]
SameEntries(s, t) == \A d \in Range(s) \cup Range(t) : Count(s, d) = Count(t, d)

\* C1: whenever a run_backfill call on a manager returns its summary,
\* processed_dates + closure_dates + failed_dates equals total_dates, also
\* when the manager has run before.
C1_CountersSumToTotal ==
    Returning => Recorded(stats) = stats.total_dates

\* C2: in a returned summary failed_date_list and closure_date_list share no
\* date, list no date twice, and list only dates of that run's work list.
C2_ListsDisjointUniqueInWorkList ==
    Returning =>
        /\ Range(stats.failed_date_list) \cap Range(stats.closure_date_list) = {}
        /\ \A d \in Days :
              Count(stats.failed_date_list, d) + Count(stats.closure_date_list, d) <= 1
        /\ Range(stats.failed_date_list) \cup Range(stats.closure_date_list)
              \subseteq Range(dates_to_process)

C6_InFlightAtMostMaxWorkers ==
    Running <= max_workers

\* C6 witness: the pool is full and a date of the batch still waits.
C6_Witness ==
    /\ pc = "collect"
    /\ Running = max_workers
    /\ \E k \in DOMAIN fut : fut[k].state = "queued"

\* C7: while a date of the batch at offset i has started, every date of the
\* earlier batches has completed and been recorded, and no date outside the
\* current slice has a future.
C7_BatchesRunInOrder ==
    (pc = "collect" /\ \E k \in DOMAIN fut : Started(k)) =>
        /\ batch = Slice(dates_to_process, i, batch_size)
        /\ Len(all_results) = i
        /\ SameEntries(DatesOf(all_results), SubSeq(dates_to_process, 1, i))

\* C7 witness: a date of the second batch is running.
C7_Witness ==
    /\ pc = "collect"
    /\ i > 0
    /\ \E k \in DOMAIN fut : fut[k].state = "running"

\* C3: whatever step of a date raises (probe, classification, closure
\* synthesis or load, download, transform, load, validation), the decorated
\* process_single_date raises nothing and returns status "error".
C3_AnyErrorGivesErrorStatus ==
    pd.called =>
        /\ ~pd.out.raised
        /\ (pd.env.probe.raises \/ pd.out.value.probe_error
              \/ pd.out.value.load_errors # {})
           => pd.out.value.status = "error"

\* C4: when collecting a future raises, failed_dates grows by one and the
\* date is appended to failed_date_list, nothing else of the statistics
\* changes, the other futures of the batch are untouched and the batch goes
\* on; and when the summary is about to be returned every entry of the work
\* list has a result.
C4_CollectFailureIsolated ==
    /\ [][\A k \in 1..MaxBatch :
            Collect(k, TRUE) =>
               /\ stats' = [stats EXCEPT
                              !.failed_dates = @ + 1,
                              !.failed_date_list = Append(@, batch[k])]
               /\ \A j \in DOMAIN fut : j # k => fut'[j] = fut[j]
               /\ pc' = "collect" /\ i' = i /\ batch' = batch
               /\ dates_to_process' = dates_to_process]_vars
    /\ [](Returning => SameEntries(DatesOf(all_results), dates_to_process))

\* C4 witness: the worker of the first of two dates returned success, its
\* collection raised and recorded an error, and the other date was recorded
\* after it.
C4_Witness ==
    /\ pc = "collect"
    /\ Len(batch) = 2 /\ batch[1] # batch[2]
    /\ fut[1].status = "success"
    /\ Len(results) = 2
    /\ results[1] = [date |-> batch[1], status |-> "error"]
    /\ stats.failed_date_list = <<batch[1]>>

\* C5: a run in progress eventually reaches the return of its summary, and
\* then every entry of the work list has exactly one result; every change of
\* the counters is one collected result counted once.
C5_RunCompletesEveryDateOnce ==
    /\ InRun ~> (Returning /\ SameEntries(DatesOf(all_results), dates_to_process)
                           /\ Len(all_results) = stats.total_dates)
    /\ [][Recorded(stats') # Recorded(stats) =>
             /\ Recorded(stats') = Recorded(stats) + 1
             /\ Len(results') = Len(results) + 1]_vars

\* C5 witness: a run of two batches is returning with a failed date in it.
C5_Witness ==
    /\ Returning
    /\ Len(dates_to_process) = 2 /\ batch_size = 1
    /\ \E k \in 1..Len(all_results) : all_results[k].status = "error"
    /\ \E k \in 1..Len(all_results) : all_results[k].status = "success"

RECURSIVE Flatten(_)
Flatten(ss) == IF ss = <<>> THEN <<>> ELSE Head(ss) \o Flatten(Tail(ss))

\* C8: the loop cuts a work list of n dates into ceil(n / batch_size)
\* contiguous slices in list order, each of batch_size dates except possibly
\* the last, which together are the work list; the loop hands out exactly
\* these slices.
C8_BatchesPartitionWorkList ==
    LET n == Len(dates_to_process)
        B == Batches(dates_to_process, 0, batch_size)
    IN /\ Len(B) * batch_size >= n
       /\ (Len(B) - 1) * batch_size < n \/ n = 0
       /\ (n = 0) => (B = <<>>)
       /\ Flatten(B) = dates_to_process
       /\ \A j \in 1..Len(B) :
             /\ Len(B[j]) >= 1
             /\ Len(B[j]) <= batch_size
             /\ j < Len(B) => Len(B[j]) = batch_size
       /\ (pc = "loop" /\ i > 0) => batch = B[i \div batch_size]
       /\ Returning => DatesOf(all_results) = dates_to_process

\* C8 witness: the last slice of a run is shorter than batch_size, after two
\* full ones.
C8_Witness ==
    /\ Returning
    /\ Len(dates_to_process) = 5 /\ batch_size = 2
    /\ batch = <<5>>
    /\ Len(all_results) = 5

\* C9: only the thread that called run_backfill writes the statistics: a
\* step of a pool thread leaves them unchanged, and every change is made by
\* the start of a run or by the collection of a completed future.
C9_OnlyCallerWritesStats ==
    /\ [][(\E k \in 1..MaxBatch : Start(k) \/ Finish(k)) => stats' = stats]_vars
    /\ [][stats' # stats =>
            \/ \E k \in 1..MaxBatch, r \in BOOLEAN : Collect(k, r)
            \/ (pc \in {"idle", "returned", "raised"} /\ pc' = "loop")]_vars

\* C9 witness: the caller has recorded one date while a pool thread is still
\* processing another.
C9_Witness ==
    /\ pc = "collect"
    /\ \E j, k \in DOMAIN fut :
          fut[j].state = "collected" /\ fut[k].state = "running"

Ascending(s) == \A j, k \in 1..Len(s) : j < k => s[j] <= s[k]
FilterCall == call.fn = "filter_dates_to_process"

\* C11 as stated: with skip_existing the result is the candidates that are
\* not in the processed set, in the relative order of the candidates, and
\* without skip_existing it is the candidates unchanged and no query is made.
C11_FilterKeepsCandidateOrder ==
    FilterCall =>
        IF skip_existing
        THEN call.out = SelectSeq(call.available_dates,
                                  LAMBDA d : d \notin call.processed)
        ELSE call.out = call.available_dates /\ call.queries = 0

\* C11 amended: with skip_existing the result holds exactly the candidates
\* that are not in the processed set, each as often as the candidates hold
\* it, in ascending order (the candidates' own order when they ascend), after
\* one query; without skip_existing it is the candidates unchanged and no
\* query is made.
C11_FilterKeepsUnprocessedAscending ==
    FilterCall =>
        IF skip_existing
        THEN /\ \A d \in Days :
                   Count(call.out, d) =
                      IF d \in call.processed THEN 0
                      ELSE Count(call.available_dates, d)
             /\ Ascending(call.out)
             /\ Ascending(call.available_dates) =>
                   call.out = SelectSeq(call.available_dates,
                                        LAMBDA d : d \notin call.processed)
             /\ call.queries = 1
        ELSE call.out = call.available_dates /\ call.queries = 0

\* C11 witness: candidates out of order, one of them processed and dropped,
\* the other kept.
C11_Witness ==
    /\ FilterCall
    /\ skip_existing
    /\ call.available_dates = <<2, 1, 2>>
    /\ call.processed = {1}
    /\ call.out = <<2, 2>>

\* The number of the day in the proleptic Gregorian calendar (date.toordinal).
RECURSIVE DaysBeforeMonth(_, _)
DaysBeforeMonth(y, m) ==
    IF m = 1 THEN 0 ELSE DaysBeforeMonth(y, m - 1) + DaysInMonth(y, m - 1)

toordinal(t) ==
    LET y == t.y - 1
    IN y * 365 + (y \div 4) - (y \div 100) + (y \div 400)
       + DaysBeforeMonth(t.y, t.m) + t.d

RangeCall == call.fn = "get_date_range"

\* C12: for well-formed start and end, get_date_range raises nothing and
\* returns end - start + 1 dates (none when end is before start), the k-th
\* being the calendar day k - 1 days after start: every day from start to
\* end once, in ascending order.
C12_RangeIsEveryDayAscending ==
    (RangeCall /\ ~strptime(call.start_date).raises
               /\ ~strptime(call.end_date).raises) =>
        LET first == toordinal(strptime(call.start_date))
            last == toordinal(strptime(call.end_date))
            dates == call.out.dates
        IN /\ ~call.out.raised
           /\ Len(dates) = IF last < first THEN 0 ELSE last - first + 1
           /\ \A k \in 1..Len(dates) :
                 /\ ~strptime(dates[k]).raises
                 /\ toordinal(strptime(dates[k])) = first + k - 1
           /\ \A j, k \in 1..Len(dates) : j < k => dates[j] < dates[k]
           /\ call.start_date = call.end_date => dates = <<call.start_date>>

\* C12 witness: a range over the leap day.
C12_Witness ==
    /\ RangeCall
    /\ call.start_date = 20240228 /\ call.end_date = 20240301
    /\ call.out.dates = <<20240228, 20240229, 20240301>>

\* C13: run_backfill on a request with a malformed date (start, end or an
\* entry of the explicit list) raises to the caller: it never gets to its
\* batch loop, so no date of the request is probed, loaded or recorded.
C13_MalformedRequestRaises ==
    [][(pc = "idle" /\ pc' # "idle") => pc' = "raised"]_vars

ClassifyCall == call.fn = "is_likely_closure_date"

\* C14: is_likely_closure_date answers by the first rule that matches, in
\* the order no files, few records, few files, low sales, no meaningful
\* data; no files always gives no_files; the answer is fixed by the
\* analysis and the thresholds, whatever the date and the manager's state.
C14_FirstMatchingRuleDecides ==
    ClassifyCall =>
        LET fa == call.file_analysis
            r1 == fa.files_found = 0
            r2 == fa.total_records < min_records_threshold
            r3 == fa.files_found < min_files_threshold
            r4 == 0 < fa.total_sales /\ fa.total_sales < min_sales_threshold
            r5 == ~fa.has_meaningful_data
        IN /\ r1 => call.out = <<TRUE, "no_files">>
           /\ (~r1 /\ r2) => call.out = <<TRUE, "low_activity">>
           /\ (~r1 /\ ~r2 /\ r3) => call.out = <<TRUE, "low_activity">>
           /\ (~r1 /\ ~r2 /\ ~r3 /\ r4) => call.out = <<TRUE, "no_sales">>
           /\ (~r1 /\ ~r2 /\ ~r3 /\ ~r4 /\ r5) => call.out = <<TRUE, "low_activity">>
           /\ (~r1 /\ ~r2 /\ ~r3 /\ ~r4 /\ ~r5) => call.out = <<FALSE, "">>

\* C14 witness: no files and no records, so that the first two rules both
\* match, answered no_files.
C14_Witness ==
    /\ ClassifyCall
    /\ call.file_analysis.files_found = 0
    /\ call.file_analysis.total_records < min_records_threshold
    /\ call.file_analysis.has_meaningful_data
    /\ call.out = <<TRUE, "no_files">>

ClosureCall == call.fn = "generate_closure_records"
NumericFields == {"item_qty", "net_amount", "total", "amount", "quantity",
                  "net_price", "fulfillment_time"}
DateFields == {"processing_date", "opened_date", "created_date", "opened"}

\* C15: for a well-formed date, generate_closure_records returns one row for
\* each of the seven tables and no other; every row has closure_indicator
\* true, closure_reason equal to the given reason, the given day in its date
\* fields, and 0 in every numeric field.
C15_OneZeroRowPerTable ==
    (ClosureCall /\ ~strptime(call.date).raises) =>
        LET zr == call.out.records
        IN /\ ~call.out.raised
           /\ DOMAIN zr = {"all_items_report", "check_details", "cash_entries",
                           "item_selection_details", "kitchen_timings",
                           "order_details", "payment_details"}
           /\ DOMAIN zr = Tables
           /\ \A t \in DOMAIN zr :
                 /\ Len(zr[t]) = 1
                 /\ zr[t][1].closure_indicator = TRUE
                 /\ zr[t][1].closure_reason = call.closure_reason
                 /\ "processing_date" \in DOMAIN zr[t][1]
                 /\ \A f \in DOMAIN zr[t][1] \cap DateFields :
                       zr[t][1][f][1] * 10000 + zr[t][1][f][2] * 100 + zr[t][1][f][3]
                          = call.date
                 /\ DOMAIN zr[t][1] \cap NumericFields # {}
                 /\ \A f \in DOMAIN zr[t][1] \cap NumericFields : zr[t][1][f] = 0

\* C15 witness: the rows of the leap day, closed for a reason that has no
\* note of its own.
C15_Witness ==
    /\ ClosureCall
    /\ call.date = 20240229
    /\ call.closure_reason = "holiday"
    /\ ~call.out.raised
    /\ call.out.records["order_details"][1].opened = <<2024, 2, 29>>

\* C16: when the probe of a well-formed date reports no files,
\* process_single_date returns closure_processed with reason no_files and
\* records_loaded = 7, and the run counts the date in closure_dates.
C16_NoFilesLoadsSevenRows ==
    (pd.called /\ ~pd.env.probe.raises /\ pd.env.probe.files = <<>>
               /\ ~pd.env.synth_raises) =>
        /\ pd.out.value.status = "closure_processed"
        /\ pd.out.value.closure_reason = "no_files"
        /\ pd.out.value.records_loaded = Cardinality(Tables)
        /\ Cardinality(Tables) = 7
        /\ RecordResult(InitStats, pd.date, pd.out.value).closure_dates = 1

WrapperCall == call.fn = "wrapper"
\* The operation fails Len(op) times with errors the policy retries.
AllRetryable == \A k \in 1..Len(call.op) : Catches(call.policy.exceptions, call.op[k])

FirstFatal ==
    LET fatal == {k \in 1..Len(call.op) : ~Catches(call.policy.exceptions, call.op[k])}
    IN IF fatal = {} THEN 0 ELSE CHOOSE k \in fatal : \A j \in fatal : k <= j

\* C18: when an invocation raises an error whose type the policy does not
\* retry, the wrapper raises that error at once: that invocation is the
\* last, and the last thing the wrapper did, at any attempt index.
C18_NonRetryablePropagatesAtOnce ==
    (WrapperCall /\ FirstFatal >= 1 /\ FirstFatal <= call.policy.max_attempts) =>
        /\ call.out.raised
        /\ call.out.error = [type |-> call.op[FirstFatal], id |-> FirstFatal]
        /\ Calls(call.out.log) = FirstFatal
        /\ Sleeps(call.out.log) = FirstFatal - 1
        /\ call.out.log[Len(call.out.log)].ev = "call"

\* C18 witness: the second invocation raises a ValueError under a policy
\* that retries IOError only, with attempts to spare.
C18_Witness ==
    /\ WrapperCall
    /\ call.op = <<"IOError", "ValueError", "IOError">>
    /\ call.policy.exceptions = {"IOError"}
    /\ call.policy.max_attempts = 3
    /\ call.out.error = [type |-> "ValueError", id |-> 2]
    /\ Len(call.out.log) = 3

\* Exact fractions [n, d] with d > 0.
FracLe(x, y) == x.n * y.d <= y.n * x.d
FracEq(x, y) == x.n * y.d = y.n * x.d
FracMin(x, y) == IF FracLe(x, y) THEN x ELSE y

\* min(base_delay * exponential_base^a, max_delay)
BackoffFormula(p, a) ==
    FracMin([n |-> p.base_delay * Pow(p.exponential_base.n, a),
             d |-> Pow(p.exponential_base.d, a)],
            [n |-> p.max_delay, d |-> 1])

\* The log of a call of the wrapper without jitter that invoked the
\* operation at least once, and the sleep after the attempt with index a.
PlainBackoffCall == WrapperCall /\ ~call.policy.jitter /\ Len(call.out.log) >= 1
SleepAfter(a) == call.out.log[2 * a + 2]

\* Sleeps follow the formula, stay under max_delay, and calls and sleeps
\* alternate from a call to a call.
BackoffShape ==
    LET log == call.out.log
    IN /\ Len(log) = 2 * Calls(log) - 1
       /\ \A k \in 1..Len(log) : log[k].ev = (IF k % 2 = 1 THEN "call" ELSE "sleep")
       /\ \A a \in 0..(Sleeps(log) - 1) :
            /\ FracEq(SleepAfter(a), BackoffFormula(call.policy, a))
            /\ FracLe(SleepAfter(a), [n |-> call.policy.max_delay, d |-> 1])

BackoffNeverDecreases ==
    \A a \in 0..(Sleeps(call.out.log) - 2) : FracLe(SleepAfter(a), SleepAfter(a + 1))

\* C19 as stated: without jitter the sleep after the failed attempt a is
\* min(base_delay * exponential_base^a, max_delay), at most max_delay, never
\* smaller than the sleep before it, one sleep lies between two consecutive
\* attempts and none follows the last attempt.
C19_BackoffExactMonotoneCapped ==
    PlainBackoffCall => (BackoffShape /\ BackoffNeverDecreases)

\* C19 amended: the same, the delays being non-decreasing when
\* exponential_base >= 1.
C19_BackoffExactCappedMonotoneForGrowingBase ==
    PlainBackoffCall =>
        /\ BackoffShape
        /\ call.policy.exponential_base.n >= call.policy.exponential_base.d
             => BackoffNeverDecreases

\* C19 witness: three failed attempts under base_delay 1, base 2, cap 2,
\* max_attempts 3: sleeps of 1 and 2 between the three calls, none after.
C19_Witness ==
    /\ PlainBackoffCall
    /\ call.policy.base_delay = 1
    /\ call.policy.exponential_base = [n |-> 2, d |-> 1]
    /\ call.policy.max_delay = 2
    /\ call.policy.max_attempts = 3
    /\ call.out.raised
    /\ call.out.log = <<CallEvent, SleepEvent([n |-> 1, d |-> 1]), CallEvent,
                        SleepEvent([n |-> 2, d |-> 1]), CallEvent>>

\* An extractor or loader call of the date failed for good: the probe, the
\* download of an open day, or the load of some table.
ExtractorOrLoaderFailed ==
    \/ pd.env.probe.raises
    \/ (pd.env.probe = OpenProbe /\ pd.env.download.raises)
    \/ pd.out.value.load_errors # {}

\* C20: a date whose probe, download or table load failed for good is a
\* failed date: its status is neither success nor closure_processed, and the
\* statistics count it in failed_dates and list it in failed_date_list.
C20_ExhaustedCallFailsTheDate ==
    (pd.called /\ ExtractorOrLoaderFailed) =>
        LET st == RecordResult(InitStats, pd.date, pd.out.value)
        IN /\ pd.out.value.status \notin {"success", "closure_processed"}
           /\ st.failed_dates = 1
           /\ st.failed_date_list = <<pd.date>>

\* C21: on a normal day, a table whose load raises on its first two
\* invocations and succeeds on the third is loaded: the date is a success,
\* the load ran three times and the rows of the table are counted.
C21_LoadSucceedsOnThirdAttempt ==
    call.fn = "load_step" =>
        \A t \in LoadTables :
            Len(call.ops[t]) = 2 =>
                /\ call.out.status = "success"
                /\ call.loads[t].body_calls = 3
                /\ t \notin call.out.load_errors
                /\ call.out.records_loaded =
                     2 * Cardinality(LoadTables \ call.out.load_errors)

\* C22: collecting a result whose status is no_files or no_data leaves
\* failed_dates and failed_date_list as they were: absence of data is
\* recorded apart from failure.
C22_DataAbsenceIsNotFailure ==
    [][\A k \in 1..MaxBatch :
          (Collect(k, FALSE) /\ ~fut[k].raised
             /\ fut[k].status \in {"no_files", "no_data"})
          => /\ stats'.failed_dates = stats.failed_dates
             /\ stats'.failed_date_list = stats.failed_date_list]_vars

\* A normal day whose load loop has run to its end (lines 287-300).
LoadsCompleted ==
    /\ pd.called
    /\ pd.env.probe = OpenProbe
    /\ ~pd.env.download.raises
    /\ pd.env.download.files # <<>>
    /\ ~TransformRaises(pd.env)
    /\ TransformedTables(pd.env) # {}

\* C23: with validate_data enabled, a validation that fails after the loads
\* of a normal day leaves the date a success with the loaded totals, counted
\* in processed_dates and not in failed_dates.
C23_ValidationFailureKeepsSuccess ==
    (LoadsCompleted /\ validate_data /\ pd.env.validate_raises) =>
        LET st == RecordResult(InitStats, pd.date, pd.out.value)
        IN /\ pd.out.value.status = "success"
           /\ pd.out.value.records_loaded =
                SumRows(pd.env, TransformedTables(pd.env) \ pd.env.load_raises)
           /\ st.processed_dates = 1
           /\ st.failed_dates = 0

\* C24: when process_single_date returns, with any status, no downloaded or
\* transformed file of the date is left in local staging.
C24_StagingRemovedOnReturn ==
    pd.called => pd.staged = {}

\* The date is returned as a no_files closure and counted as a closure.
CountedAsNoFilesClosure ==
    LET st == RecordResult(InitStats, pd.date, pd.out.value)
    IN /\ ~pd.out.raised
       /\ pd.out.value.status = "closure_processed"
       /\ pd.out.value.closure_reason = "no_files"
       /\ st.closure_dates = 1
       /\ st.closure_date_list = <<pd.date>>
       /\ st.failed_dates = 0
       /\ st.failed_date_list = <<>>

C26_LoadErrorSwallowedPerTable ==
    pd.called =>
        LET v == pd.out.value
            clean == process_single_date(pd.date, [pd.env EXCEPT !.load_raises = {}],
                                         validate_data).value
            ok == TransformedTables(pd.env) \ pd.env.load_raises
        IN /\ ~pd.out.raised
           /\ v.status = clean.status
           /\ v.status = "success" =>
                /\ v.records_loaded = SumRows(pd.env, ok)
                /\ pd.out.loaded = ok
                /\ v.load_errors = TransformedTables(pd.env) \cap pd.env.load_raises
           /\ v.status = "closure_processed" =>
                /\ v.records_loaded = Cardinality(Tables \ pd.env.load_raises)
                /\ v.load_errors = pd.env.load_raises
           /\ \A n \in 0..MaxRecorded :
                RecordResult([InitStats EXCEPT !.total_records = n], pd.date, v).total_records
                  = IF v.status \in {"success", "closure_processed"}
                    THEN n + v.records_loaded ELSE n

\* C26 witness: on a normal day with two tables of two rows the load of
\* order_details raised; the date is a success with the two rows of
\* check_details.
C26_Witness ==
    /\ pd.called
    /\ pd.env.load_raises = {"order_details"}
    /\ TransformedTables(pd.env) = {"order_details", "check_details"}
    /\ pd.out.value.status = "success"
    /\ pd.out.value.records_loaded = 2
    /\ pd.out.value.load_errors = {"order_details"}
    /\ pd.out.loaded = {"check_details"}

\* C27: when the processed-dates query fails, get_processed_dates answers
\* the empty list, so a run with skip_existing over a range or over all
\* available dates is not aborted and its work list is every candidate date,
\* those already in the warehouse included.
C27_FailedQueryFailsOpen ==
    [][\A req \in Requests :
          (skip_existing /\ req.specific_dates = <<>> /\ RunBackfill(req, TRUE))
          => LET r == IF req = NoRequest
                      THEN [raised |-> FALSE, dates |-> get_available_sftp_dates]
                      ELSE get_date_range(req.start_date, req.end_date)
             IN ~r.raised =>
                  /\ get_processed_dates(TRUE) = {}
                  /\ pc' = "loop"
                  /\ dates_to_process' = r.dates]_vars

\* C27 witness: a run with skip_existing over a range starts with a date in
\* its work list that the warehouse already holds.
C27_Witness ==
    /\ skip_existing
    /\ pc = "loop"
    /\ i = 0
    /\ request.specific_dates = <<>>
    /\ Range(dates_to_process) \cap warehouse # {}

\* C28: in a run the body of process_single_date runs once for each entry
\* of the work list: every future of a batch stands for one entry of the
\* slice, a future that has ended ran the body once, slept never and raised
\* nothing, and when the summary is returned there is one result per entry.
C28_BodyRunsOncePerEntry ==
    /\ pc = "collect" =>
          /\ batch = Slice(dates_to_process, i, batch_size)
          /\ Len(fut) = Len(batch)
          /\ \A k \in DOMAIN fut :
                IF fut[k].state \in {"finished", "collected"}
                THEN fut[k].calls = 1 /\ fut[k].sleeps = 0 /\ ~fut[k].raised
                ELSE fut[k].calls = 0 /\ fut[k].sleeps = 0
    /\ Returning => Len(all_results) = Len(dates_to_process)

\* C28 witness: a date has ended with status error; its body ran once.
C28_Witness ==
    /\ pc = "collect"
    /\ \E k \in DOMAIN fut :
          /\ fut[k].state = "finished"
          /\ fut[k].status = "error"
          /\ fut[k].calls = 1
          /\ fut[k].sleeps = 0

\* get_current_stats has returned its dictionary while a run was in progress.
SnapshotReturned ==
    call.fn = "get_current_stats" /\ call.reads = SnapshotReads /\ call.in_run

\* C29: a snapshot returned while a run is in progress has processed_dates
\* + closure_dates + failed_dates <= total_dates and a progress_percentage
\* between 0 and 100 that is 0 while total_dates is 0, and no step of
\* get_current_stats changes a statistic.
C29_SnapshotsAreConsistent ==
    /\ [](SnapshotReturned =>
            /\ call.processed_dates + call.closure_dates + call.failed_dates
                 <= call.total_dates
            /\ 0 <= call.num /\ call.num <= call.den
            /\ call.total_dates = 0 => call.num = 0)
    /\ [][(GetCurrentStatsBegin \/ GetCurrentStatsRead) => stats' = stats]_vars

\* The days a request asks for: those of its explicit list, otherwise those
\* of the available range from its start date, when it has one, to its end
\* date, when it has one.
RequestedDays(req) ==
    IF req.specific_dates # <<>>
    THEN Range(req.specific_dates)
    ELSE {d \in Days : /\ req.start_date.kind = "day" => d >= req.start_date.day
                       /\ req.end_date.kind = "day" => d <= req.end_date.day}

\* C30: every date of the work list of a run, and so every date handed to
\* a batch, belongs to the request: to the explicit list, otherwise to the
\* range from start_date to end_date; the whole available range is worked on
\* only when the request names no date at all.
C30_ProcessedDatesBelongToRequest ==
    pc \in {"loop", "collect"} =>
        /\ Range(dates_to_process) \subseteq RequestedDays(request)
        /\ pc = "collect" => Range(batch) \subseteq RequestedDays(request)

====
